---- MODULE Spec2Model ----
(***************************************************************************)
(* Model of src/empathy_engine.py: EmotionDetector (classifier path,       *)
(* intensity estimation, lexical fallback) and EmpathyEngine (base table,  *)
(* intensity scaling, lock-guarded audio generation).                      *)
(*                                                                         *)
(* Number representation.  Python floats are modelled as exact decimals:   *)
(*   confidence, intensity : hundredths   (0.6  is 60)                     *)
(*   pitch, volume         : thousandths  (0.85 is 850, 10 is 10000)       *)
(*   rate                  : integer words per minute                      *)
(* Binary floating-point rounding error is outside the model.              *)
(* A text is a sequence of one-character strings.                          *)
(***************************************************************************)
EXTENDS Integers, Sequences, FiniteSets, TLC

VARIABLES
    classifier,       \* EmotionDetector.classifier: TRUE = pipeline loaded, FALSE = None
    tts_lock,         \* EmpathyEngine.tts_lock: 0 = free, else the thread holding it
    pc,               \* pc[t]: position of thread t inside process_text
    text,             \* text[t]: argument of the process_text call of thread t
    result,           \* result[t]: what self.classifier(text) did in this call
    emotion_result,   \* emotion_result[t]: local of process_text (step 1)
    base_params,      \* base_params[t]: local of process_text (step 2)
    adjusted_params,  \* adjusted_params[t]: local of process_text (step 3)
    audio_path,       \* audio_path[t]: temp file produced by _generate_audio, 0 = none
    direct,           \* the direct invocation of a helper method, if one was made
    mode,             \* how the program runs: "web" (Flask), "cli" (--cli), "library"
    clock,            \* time.time() in whole milliseconds
    app_config,       \* app.config: audio_<audio_id> -> audio path
    response,         \* response[t]: what the route or the CLI loop rendered for t
    served            \* served[t]: the path /audio/<audio_id> served to the client of t

\* the state of the web and CLI shells around the engine
shell == <<mode, clock, app_config, response, served>>

vars == <<classifier, tts_lock, pc, text, result, emotion_result, base_params,
          adjusted_params, audio_path, direct, shell>>

-----------------------------------------------------------------------------
(* Bounds of the model *)

\* number of concurrent process_text callers
NumThreads == 2

\* a text is a concatenation of at most MaxPieces pieces
MaxPieces == 3

\* time.time() is read in steps of 1/TicksPerMs of a millisecond
TicksPerMs == 2

\* the clock runs from the first tick of millisecond 1 to tick MaxClock
MaxClock == 4

Threads == 1..NumThreads

-----------------------------------------------------------------------------
(* Python primitives *)

Min(a, b) == IF a < b THEN a ELSE b

Max(a, b) == IF a > b THEN a ELSE b

UpperCase ==
    <<"A","B","C","D","E","F","G","H","I","J","K","L","M",
      "N","O","P","Q","R","S","T","U","V","W","X","Y","Z">>

LowerCase ==
    <<"a","b","c","d","e","f","g","h","i","j","k","l","m",
      "n","o","p","q","r","s","t","u","v","w","x","y","z">>

\* c.isupper()
isupper(c) == c \in { UpperCase[i] : i \in 1..Len(UpperCase) }

\* the lower-case letter of each upper-case letter
lower_of ==
    [c \in { UpperCase[i] : i \in 1..Len(UpperCase) } |->
        LowerCase[CHOOSE k \in 1..Len(UpperCase) : UpperCase[k] = c]]

\* str.lower(), one character at a time
lower(s) == [i \in 1..Len(s) |-> IF isupper(s[i]) THEN lower_of[s[i]] ELSE s[i]]

\* `marker in s` on strings: marker is a contiguous substring of s
Contains(marker, s) ==
    \E i \in 0..(Len(s) - Len(marker)) :
        \A j \in 1..Len(marker) : s[i + j] = marker[j]

\* dict.get(key, default)
dict_get(d, key, default) == IF key \in DOMAIN d THEN d[key] ELSE default

\* int() taken for rounding to the nearest integer
int_rounding(num, den) ==
    IF num >= 0 THEN (2 * num + den) \div (2 * den)
    ELSE -((2 * (-num) + den) \div (2 * den))

\* int(num / den): conversion of a float to int discards the fraction (toward zero)
int(num, den) == IF num >= 0 THEN num \div den ELSE -((-num) \div den)

-----------------------------------------------------------------------------
(* Data classes *)

VoiceParameters(rate, pitch, volume, emphasis) ==
    [rate |-> rate, pitch |-> pitch, volume |-> volume, emphasis |-> emphasis]

EmotionResult(emotion, confidence, intensity) ==
    [emotion |-> emotion, confidence |-> confidence, intensity |-> intensity]

\* values of locals that are not assigned yet
NoParams == VoiceParameters(0, 0, 0, "unset")

NoEmotion == EmotionResult("unset", 0, 0)

-----------------------------------------------------------------------------
(* EmotionDetector *)

emotions_map ==
    (<<"j","o","y">> :> "happy") @@
    (<<"s","a","d","n","e","s","s">> :> "sad") @@
    (<<"a","n","g","e","r">> :> "angry") @@
    (<<"f","e","a","r">> :> "worried") @@
    (<<"s","u","r","p","r","i","s","e">> :> "surprised") @@
    (<<"d","i","s","g","u","s","t">> :> "disgusted") @@
    (<<"n","e","u","t","r","a","l">> :> "neutral")

intensity_markers_high ==
    << <<"!","!","!">>,
       <<"a","m","a","z","i","n","g">>,
       <<"i","n","c","r","e","d","i","b","l","e">>,
       <<"f","a","n","t","a","s","t","i","c">>,
       <<"t","e","r","r","i","b","l","e">>,
       <<"a","w","f","u","l">>,
       <<"f","u","r","i","o","u","s">>,
       <<"e","c","s","t","a","t","i","c">> >>

intensity_markers_medium ==
    << <<"!">>,
       <<"g","r","e","a","t">>,
       <<"g","o","o","d">>,
       <<"b","a","d">>,
       <<"u","p","s","e","t">>,
       <<"h","a","p","p","y">>,
       <<"s","a","d">> >>

positive_words ==
    << <<"g","o","o","d">>,
       <<"g","r","e","a","t">>,
       <<"e","x","c","e","l","l","e","n","t">>,
       <<"a","m","a","z","i","n","g">>,
       <<"w","o","n","d","e","r","f","u","l">>,
       <<"f","a","n","t","a","s","t","i","c">>,
       <<"l","o","v","e">>,
       <<"h","a","p","p","y">> >>

negative_words ==
    << <<"b","a","d">>,
       <<"t","e","r","r","i","b","l","e">>,
       <<"a","w","f","u","l">>,
       <<"h","a","t","e">>,
       <<"s","a","d">>,
       <<"a","n","g","r","y">>,
       <<"f","r","u","s","t","r","a","t","e","d">>,
       <<"a","n","n","o","y","i","n","g">> >>

\* the scan of a marker list stopping at its first match
RECURSIVE scan_markers_first_match(_, _, _, _)
scan_markers_first_match(markers, text_lower, intensity_score, step) ==
    IF markers = <<>>
    THEN intensity_score
    ELSE IF Contains(Head(markers), text_lower)
         THEN Min(100, intensity_score + step)
         ELSE scan_markers_first_match(Tail(markers), text_lower, intensity_score, step)

\* for marker in markers: if marker in text_lower:
\*     intensity_score = min(1.0, intensity_score + step)
RECURSIVE scan_markers(_, _, _, _)
scan_markers(markers, text_lower, intensity_score, step) ==
    IF markers = <<>>
    THEN intensity_score
    ELSE scan_markers(Tail(markers), text_lower,
                      IF Contains(Head(markers), text_lower)
                      THEN Min(100, intensity_score + step)
                      ELSE intensity_score,
                      step)

\* sum(1 for c in text if c.isupper())
RECURSIVE count_upper(_)
count_upper(s) ==
    IF s = <<>> THEN 0
    ELSE (IF isupper(Head(s)) THEN 1 ELSE 0) + count_upper(Tail(s))

\* caps_ratio > 0.3, with caps_ratio = uppercase / max(1, len(text))
caps_shouting(s) == 10 * count_upper(s) > 3 * Max(1, Len(s))

\* each matching list sets the score from base_confidence instead of adding to it
calculate_intensity_overwriting(txt, base_confidence) ==
    LET text_lower == lower(txt)
        high_found == \E i \in 1..Len(intensity_markers_high) :
                          Contains(intensity_markers_high[i], text_lower)
        medium_found == \E i \in 1..Len(intensity_markers_medium) :
                            Contains(intensity_markers_medium[i], text_lower)
        after_high == IF high_found THEN Min(100, base_confidence + 30)
                      ELSE base_confidence
        after_medium == IF medium_found THEN Min(100, base_confidence + 10)
                        ELSE after_high
        after_caps == IF caps_shouting(txt)
                      THEN Min(100, after_medium + 20)
                      ELSE after_medium
    IN  Max(10, Min(100, after_caps))

_calculate_intensity(txt, base_confidence) ==
    LET text_lower == lower(txt)
        after_high == scan_markers(intensity_markers_high, text_lower,
                                   base_confidence, 30)
        after_medium == scan_markers(intensity_markers_medium, text_lower,
                                     after_high, 10)
        after_caps == IF caps_shouting(txt)
                      THEN Min(100, after_medium + 20)
                      ELSE after_medium
    IN  Max(10, Min(100, after_caps))

\* sum(1 for word in words if word in text_lower)
RECURSIVE count_present(_, _)
count_present(words, text_lower) ==
    IF words = <<>> THEN 0
    ELSE (IF Contains(Head(words), text_lower) THEN 1 ELSE 0)
         + count_present(Tail(words), text_lower)

\* the words looked up in text instead of text_lower
sentiment_without_lower(txt) ==
    LET pos_count == count_present(positive_words, txt)
        neg_count == count_present(negative_words, txt)
    IN  IF pos_count > neg_count THEN EmotionResult("happy", 70, 60)
        ELSE IF neg_count > pos_count THEN EmotionResult("angry", 70, 60)
        ELSE EmotionResult("neutral", 80, 30)

_basic_sentiment_analysis(txt) ==
    LET text_lower == lower(txt)
        pos_count == count_present(positive_words, text_lower)
        neg_count == count_present(negative_words, text_lower)
    IN  IF pos_count > neg_count THEN EmotionResult("happy", 70, 60)
        ELSE IF neg_count > pos_count THEN EmotionResult("angry", 70, 60)
        ELSE EmotionResult("neutral", 80, 30)

(* What one call self.classifier(text) does: it raises, or it returns a     *)
(* list of items; an item may lack 'label' or 'score', or hold a value of   *)
(* the wrong type there.                                                    *)
ClassifierItem(label_kind, label, score_kind, score) ==
    [label_kind |-> label_kind, label |-> label,
     score_kind |-> score_kind, score |-> score]

ClassifierRaises == [raises |-> TRUE, items |-> <<>>]

ClassifierReturns(items) == [raises |-> FALSE, items |-> items]

NoCall == [raises |-> FALSE, items |-> << ClassifierItem("unset", <<>>, "unset", 0) >>]

\* the try block with the label looked up as returned, not lower-cased
classifier_path_label_not_lowered(res, txt) ==
    IF res.raises THEN [exc |-> TRUE, value |-> NoEmotion]
    ELSE IF Len(res.items) = 0 THEN [exc |-> TRUE, value |-> NoEmotion]
    ELSE IF res.items[1].label_kind # "str" THEN [exc |-> TRUE, value |-> NoEmotion]
    ELSE IF res.items[1].score_kind # "num" THEN [exc |-> TRUE, value |-> NoEmotion]
    ELSE LET confidence == res.items[1].score
             emotion == dict_get(emotions_map, res.items[1].label, "neutral")
             intensity == _calculate_intensity(txt, confidence)
         IN  [exc |-> FALSE, value |-> EmotionResult(emotion, confidence, intensity)]

\* the try block of detect_emotion: exc is TRUE when a statement of it raises
classifier_path(res, txt) ==
    IF res.raises THEN [exc |-> TRUE, value |-> NoEmotion]
    ELSE IF Len(res.items) = 0 THEN [exc |-> TRUE, value |-> NoEmotion]
    ELSE IF res.items[1].label_kind # "str" THEN [exc |-> TRUE, value |-> NoEmotion]
    ELSE IF res.items[1].score_kind = "missing" THEN [exc |-> TRUE, value |-> NoEmotion]
    ELSE IF res.items[1].score_kind # "num" THEN [exc |-> TRUE, value |-> NoEmotion]
    ELSE LET emotion_raw == lower(res.items[1].label)
             confidence == res.items[1].score
             emotion == dict_get(emotions_map, emotion_raw, "neutral")
             intensity == _calculate_intensity(txt, confidence)
         IN  [exc |-> FALSE, value |-> EmotionResult(emotion, confidence, intensity)]

\* detect_emotion without the except clause: a classifier failure leaves the method
detect_emotion_uncaught(clf, res, txt) ==
    IF clf
    THEN classifier_path(res, txt)
    ELSE [exc |-> FALSE, value |-> _basic_sentiment_analysis(txt)]

\* detect_emotion: exc is TRUE when an exception leaves the method
detect_emotion(clf, res, txt) ==
    LET tried == classifier_path(res, txt)
    IN  IF clf /\ ~tried.exc
        THEN tried
        ELSE [exc |-> FALSE, value |-> _basic_sentiment_analysis(txt)]

-----------------------------------------------------------------------------
(* EmpathyEngine *)

voice_mappings ==
    ("happy" :> VoiceParameters(220, 10000, 950, "strong")) @@
    ("excited" :> VoiceParameters(240, 15000, 1000, "strong")) @@
    ("sad" :> VoiceParameters(160, -10000, 700, "none")) @@
    ("angry" :> VoiceParameters(200, 5000, 900, "strong")) @@
    ("worried" :> VoiceParameters(180, -5000, 800, "moderate")) @@
    ("surprised" :> VoiceParameters(210, 12000, 900, "strong")) @@
    ("disgusted" :> VoiceParameters(170, -8000, 800, "none")) @@
    ("neutral" :> VoiceParameters(200, 0, 850, "none"))

\* self.voice_mappings.get(emotion): no default, None for an unknown key
base_lookup_without_default(emotion) == dict_get(voice_mappings, emotion, NoParams)

\* self.voice_mappings.get(emotion, self.voice_mappings['neutral'])
base_lookup(emotion) == dict_get(voice_mappings, emotion, voice_mappings["neutral"])

\* the scaling without its final clamping statements
scaling_without_clamp(base, intensity) ==
    LET rate == int(200 * base.rate + (base.rate - 200) * intensity, 200)
        pitch == (base.pitch * (200 + intensity)) \div 200
        volume == Min(1000, base.volume + 2 * (intensity - 50))
        emphasis == IF intensity > 60 THEN base.emphasis ELSE "none"
    IN  VoiceParameters(rate, pitch, volume, emphasis)

\* the scaling with the emphasis kept from intensity 0.6 on (>= for >)
scaling_emphasis_at_threshold(base, intensity) ==
    LET rate == int(200 * base.rate + (base.rate - 200) * intensity, 200)
        pitch == (base.pitch * (200 + intensity)) \div 200
        volume == Min(1000, base.volume + 2 * (intensity - 50))
        emphasis == IF intensity >= 60 THEN base.emphasis ELSE "none"
    IN  VoiceParameters(Max(100, Min(300, rate)),
                        Max(-50000, Min(50000, pitch)),
                        Max(100, Min(1000, volume)),
                        emphasis)

_apply_intensity_scaling(base, intensity) ==
    LET rate == int(200 * base.rate + (base.rate - 200) * intensity, 200)
        pitch == (base.pitch * (200 + intensity)) \div 200
        volume == Min(1000, base.volume + 2 * (intensity - 50))
        emphasis == IF intensity > 60 THEN base.emphasis ELSE "none"
    IN  VoiceParameters(Max(100, Min(300, rate)),
                        Max(-50000, Min(50000, pitch)),
                        Max(100, Min(1000, volume)),
                        emphasis)

-----------------------------------------------------------------------------
(* Inputs *)

Pieces ==
    { <<"g","o","o","d">>, <<"a","w","f","u","l">>, <<"!">>, <<"S","A","D">> }

RECURSIVE Concatenations(_)
Concatenations(n) ==
    IF n = 0 THEN { <<>> }
    ELSE LET shorter == Concatenations(n - 1)
         IN  shorter \cup { s \o p : s \in shorter, p \in Pieces }

Texts == Concatenations(MaxPieces)

Labels ==
    { <<"j","o","y">>, <<"s","a","d","n","e","s","s">>, <<"a","n","g","e","r">>,
      <<"f","e","a","r">>, <<"s","u","r","p","r","i","s","e">>,
      <<"d","i","s","g","u","s","t">>, <<"n","e","u","t","r","a","l">>,
      <<"F","e","a","r">>, <<"l","o","v","e">> }

\* classifier scores in hundredths; 120 is a score above the documented range
Scores == {5, 50, 85, 100, 120}

WellFormedOutputs ==
    { ClassifierReturns(<< ClassifierItem("str", l, "num", s) >>) :
        l \in Labels, s \in Scores }

MalformedOutputs ==
    { ClassifierReturns(<<>>),
      ClassifierReturns(<< ClassifierItem("missing", <<>>, "num", 85) >>),
      ClassifierReturns(<< ClassifierItem("nonstr", <<>>, "num", 85) >>),
      ClassifierReturns(<< ClassifierItem("str", <<"j","o","y">>, "missing", 0) >>),
      ClassifierReturns(<< ClassifierItem("str", <<"j","o","y">>, "nonnum", 0) >>) }

ClassifierOutputs == WellFormedOutputs \cup MalformedOutputs \cup {ClassifierRaises}

\* inputs of the concurrent specification
ThreadTexts == { <<"g","o","o","d">>, <<"S","A","D">> }

ThreadOutputs ==
    { ClassifierReturns(<< ClassifierItem("str", <<"j","o","y">>, "num", 85) >>),
      ClassifierRaises }

EmphasisLevels == {"none", "moderate", "strong"}

Bases ==
    { voice_mappings[e] : e \in DOMAIN voice_mappings } \cup
    { VoiceParameters(r, p, v, e) :
        r \in {-100, 100, 187, 213, 300, 400},
        p \in {-60000, -40000, 0, 7000, 40000},
        v \in {0, 100, 850, 1000},
        e \in EmphasisLevels }

Intensities == 0..100

EmotionStrings == DOMAIN voice_mappings \cup {"", "joy", "HAPPY", "bored"}

NoDirect ==
    [fn |-> "none", base |-> NoParams, intensity |-> 0, emotion |-> "unset",
     params |-> NoParams]

-----------------------------------------------------------------------------
(* State machine *)

\* what a shell rendered: the JSON of /process with its status, or what the CLI
\* loop printed
Rendering(kind, status, error, emotion, voice_params, audio_id, path) ==
    [kind |-> kind, status |-> status, error |-> error, emotion |-> emotion,
     voice_params |-> voice_params, audio_id |-> audio_id, audio_path |-> path]

\* nothing rendered yet
NoResponse == Rendering("none", 0, "", NoEmotion, NoParams, 0, 0)

EngineInit ==
    /\ classifier \in BOOLEAN
    /\ tts_lock = 0
    /\ pc = [t \in Threads |-> "idle"]
    /\ text = [t \in Threads |-> <<>>]
    /\ result = [t \in Threads |-> NoCall]
    /\ emotion_result = [t \in Threads |-> NoEmotion]
    /\ base_params = [t \in Threads |-> NoParams]
    /\ adjusted_params = [t \in Threads |-> NoParams]
    /\ audio_path = [t \in Threads |-> 0]
    /\ direct = NoDirect
    /\ clock = TicksPerMs
    /\ app_config = <<>>
    /\ response = [t \in Threads |-> NoResponse]
    /\ served = [t \in Threads |-> 0]

\* the engine used directly, without a shell
Init == EngineInit /\ mode = "library"

\* a caller enters process_text(txt); a run is process_text calls or one helper call
ProcessText(t, txts) ==
    /\ pc[t] = "idle"
    /\ direct = NoDirect
    /\ \E txt \in txts : text' = [text EXCEPT ![t] = txt]
    /\ pc' = [pc EXCEPT ![t] = "detect"]
    /\ UNCHANGED <<classifier, tts_lock, result, emotion_result, base_params,
                   adjusted_params, audio_path, direct>>
    /\ UNCHANGED shell

\* step 1: emotion_result = self.emotion_detector.detect_emotion(text)
DetectEmotion(t, outputs) ==
    /\ pc[t] = "detect"
    /\ \E res \in (IF classifier THEN outputs ELSE {NoCall}) :
         LET detected == detect_emotion(classifier, res, text[t])
         IN  /\ result' = [result EXCEPT ![t] = res]
             /\ emotion_result' = [emotion_result EXCEPT ![t] = detected.value]
             /\ pc' = [pc EXCEPT ![t] = IF detected.exc THEN "raised" ELSE "lookup"]
    /\ UNCHANGED <<classifier, tts_lock, text, base_params, adjusted_params,
                   audio_path, direct>>
    /\ UNCHANGED shell

\* step 2: base_params = self.voice_mappings.get(emotion, neutral entry)
LookupBase(t) ==
    /\ pc[t] = "lookup"
    /\ base_params' = [base_params EXCEPT ![t] = base_lookup(emotion_result[t].emotion)]
    /\ pc' = [pc EXCEPT ![t] = "scale"]
    /\ UNCHANGED <<classifier, tts_lock, text, result, emotion_result,
                   adjusted_params, audio_path, direct>>
    /\ UNCHANGED shell

\* step 3: adjusted_params = self._apply_intensity_scaling(base_params, intensity)
ApplyScaling(t) ==
    /\ pc[t] = "scale"
    /\ adjusted_params' =
         [adjusted_params EXCEPT
            ![t] = _apply_intensity_scaling(base_params[t], emotion_result[t].intensity)]
    /\ pc' = [pc EXCEPT ![t] = "lock"]
    /\ UNCHANGED <<classifier, tts_lock, text, result, emotion_result, base_params,
                   audio_path, direct>>
    /\ UNCHANGED shell

\* the lock released on the return path only (acquire/release without try/finally)
with_exit_keeps_lock_on_raise(holder, raising) == IF raising THEN holder ELSE 0

\* leaving `with self.tts_lock:` releases the lock, by return and by exception alike
with_exit(holder, raising) == 0

\* _generate_audio: `with self.tts_lock:` blocks until the lock is free
AcquireLock(t) ==
    /\ pc[t] = "lock"
    /\ tts_lock = 0
    /\ tts_lock' = t
    /\ pc' = [pc EXCEPT ![t] = "synth"]
    /\ UNCHANGED <<classifier, text, result, emotion_result, base_params,
                   adjusted_params, audio_path, direct>>
    /\ UNCHANGED shell

\* _generate_audio: the try block; the backend writes a fresh temp file, or a
\* statement of the block raises and the handler raises "Failed to generate audio"
Synthesize(t) ==
    /\ pc[t] = "synth"
    /\ \/ /\ audio_path' = [audio_path EXCEPT ![t] = t]
          /\ pc' = [pc EXCEPT ![t] = "leave_return"]
       \/ /\ audio_path' = audio_path
          /\ pc' = [pc EXCEPT ![t] = "leave_raise"]
    /\ UNCHANGED <<classifier, tts_lock, text, result, emotion_result, base_params,
                   adjusted_params, direct>>
    /\ UNCHANGED shell

\* _generate_audio: control leaves the with block; process_text returns
\* (emotion_result, adjusted_params, audio_path) or the exception propagates
LeaveWith(t) ==
    /\ pc[t] \in {"leave_return", "leave_raise"}
    /\ tts_lock' = with_exit(tts_lock, pc[t] = "leave_raise")
    /\ pc' = [pc EXCEPT ![t] = IF pc[t] = "leave_return" THEN "returned" ELSE "raised"]
    /\ UNCHANGED <<classifier, text, result, emotion_result, base_params,
                   adjusted_params, audio_path, direct>>
    /\ UNCHANGED shell

\* a direct call of _apply_intensity_scaling(base, intensity)
CallApplyIntensityScaling ==
    /\ \A t \in Threads : pc[t] = "idle"
    /\ direct = NoDirect
    /\ \E b \in Bases, i \in Intensities :
         direct' = [fn |-> "_apply_intensity_scaling", base |-> b, intensity |-> i,
                    emotion |-> "unset", params |-> _apply_intensity_scaling(b, i)]
    /\ UNCHANGED <<classifier, tts_lock, pc, text, result, emotion_result,
                   base_params, adjusted_params, audio_path>>
    /\ UNCHANGED shell

\* a direct lookup of the base parameters of an emotion string
CallBaseLookup ==
    /\ \A t \in Threads : pc[t] = "idle"
    /\ direct = NoDirect
    /\ \E e \in EmotionStrings :
         direct' = [fn |-> "base_lookup", base |-> NoParams, intensity |-> 0,
                    emotion |-> e, params |-> base_lookup(e)]
    /\ UNCHANGED <<classifier, tts_lock, pc, text, result, emotion_result,
                   base_params, adjusted_params, audio_path>>
    /\ UNCHANGED shell

\* the steps of _generate_audio
GenerateAudio(t) ==
    \/ AcquireLock(t)
    \/ Synthesize(t)
    \/ LeaveWith(t)

\* the steps of a process_text call once it is entered
Progress(t, outputs) ==
    \/ DetectEmotion(t, outputs)
    \/ LookupBase(t)
    \/ ApplyScaling(t)
    \/ GenerateAudio(t)

\* one caller, every input
Next ==
    \/ ProcessText(1, Texts)
    \/ Progress(1, ClassifierOutputs)
    \/ CallApplyIntensityScaling
    \/ CallBaseLookup

Spec == Init /\ [][Next]_vars

\* concurrent callers, one thread per request.  A thread inside _generate_audio
\* is scheduled while it can step: it takes the lock when the lock stays free,
\* and a synthesis that is started ends, by returning or by raising.
ThreadNext ==
    \E t \in Threads :
        \/ ProcessText(t, ThreadTexts)
        \/ Progress(t, ThreadOutputs)

ThreadSpec ==
    /\ Init
    /\ [][ThreadNext]_vars
    /\ \A t \in Threads : WF_vars(GenerateAudio(t))

-----------------------------------------------------------------------------
(* The Flask routes and the CLI loop around the engine *)

RECURSIVE lstrip(_)
lstrip(s) == IF s # <<>> /\ Head(s) = " " THEN lstrip(Tail(s)) ELSE s

RECURSIVE rstrip(_)
rstrip(s) == IF s # <<>> /\ s[Len(s)] = " " THEN rstrip(SubSeq(s, 1, Len(s) - 1)) ELSE s

\* str.strip()
strip(s) == rstrip(lstrip(s))

\* jsonify({'error': message}), status
jsonify_error(message, status) ==
    Rendering("error", status, message, NoEmotion, NoParams, 0, 0)

\* the success response built without its voice_params object
jsonify_result_without_voice_params(er, vp, audio_id) ==
    Rendering("result", 200, "", er, NoParams, audio_id, 0)

\* jsonify({'emotion': {...}, 'voice_params': {...}, 'audio_id': audio_id})
jsonify_result(er, vp, audio_id) == Rendering("result", 200, "", er, vp, audio_id, 0)

\* the CLI prints emotion, confidence, intensity, rate, pitch, volume, emphasis
\* and the audio path
cli_print_result(er, vp, path) == Rendering("result", 0, "", er, vp, 0, path)

\* the CLI prints one message
cli_print(kind, message) == Rendering(kind, 0, message, NoEmotion, NoParams, 0, 0)

\* str(int(time.time() * 1000)) at clock tick c: the whole milliseconds
audio_id_at(c) == int(c, TicksPerMs)

\* the body of a POST: no JSON at all, or a JSON object with or without 'text'
RequestBody(json, has_text, txt) == [json |-> json, has_text |-> has_text, text |-> txt]

RequestBodies ==
    { RequestBody(FALSE, FALSE, <<>>),
      RequestBody(TRUE, FALSE, <<>>),
      RequestBody(TRUE, TRUE, <<" ", " ">>),
      RequestBody(TRUE, TRUE, <<"g","o","o","d"," ">>),
      RequestBody(TRUE, TRUE, <<"S","A","D">>) }

\* the lines typed at the CLI prompt
CliLines ==
    { <<" ">>, <<"Q"," ">>, <<"e","x","i","t">>, <<" ","g","o","o","d">>,
      <<"S","A","D">> }

QuitWords == { <<"q","u","i","t">>, <<"e","x","i","t">>, <<"q">> }

\* the locals of a handler invocation of thread t, before process_text assigns them
Frame(t, txt, next_pc) ==
    /\ text' = [text EXCEPT ![t] = txt]
    /\ pc' = [pc EXCEPT ![t] = next_pc]
    /\ result' = [result EXCEPT ![t] = NoCall]
    /\ emotion_result' = [emotion_result EXCEPT ![t] = NoEmotion]
    /\ base_params' = [base_params EXCEPT ![t] = NoParams]
    /\ adjusted_params' = [adjusted_params EXCEPT ![t] = NoParams]
    /\ audio_path' = [audio_path EXCEPT ![t] = 0]
    /\ UNCHANGED <<classifier, tts_lock, direct>>

\* POST /process up to the call of empathy_engine.process_text: without JSON
\* data is None and data.get raises, which the route's except turns into a 500;
\* a text that strips to nothing is answered 400
RouteProcess(t, bodies) ==
    /\ mode = "web"
    /\ pc[t] = "idle"
    /\ \E body \in bodies :
         LET txt == strip(IF body.has_text THEN body.text ELSE <<>>)
         IN  IF ~body.json
             THEN /\ Frame(t, <<>>, "responded")
                  /\ response' =
                       [response EXCEPT
                          ![t] = jsonify_error("'NoneType' object has no attribute 'get'",
                                               500)]
             ELSE IF txt = <<>>
             THEN /\ Frame(t, <<>>, "responded")
                  /\ response' = [response EXCEPT ![t] = jsonify_error("No text provided", 400)]
             ELSE /\ Frame(t, txt, "detect")
                  /\ response' = response
    /\ UNCHANGED <<mode, clock, app_config, served>>

\* /process after process_text returned: audio_id = str(int(time.time() * 1000))
RouteAudioId(t) ==
    /\ mode = "web"
    /\ pc[t] = "returned"
    /\ response' = [response EXCEPT ![t].audio_id = audio_id_at(clock)]
    /\ pc' = [pc EXCEPT ![t] = "store"]
    /\ UNCHANGED <<classifier, tts_lock, text, result, emotion_result, base_params,
                   adjusted_params, audio_path, direct>>
    /\ UNCHANGED <<mode, clock, app_config, served>>

\* /process: app.config['audio_<audio_id>'] = audio_path; return jsonify({...})
RouteStore(t) ==
    /\ mode = "web"
    /\ pc[t] = "store"
    /\ app_config' = (response[t].audio_id :> audio_path[t]) @@ app_config
    /\ response' =
         [response EXCEPT
            ![t] = jsonify_result(emotion_result[t], adjusted_params[t],
                                  response[t].audio_id)]
    /\ pc' = [pc EXCEPT ![t] = "responded"]
    /\ UNCHANGED <<classifier, tts_lock, text, result, emotion_result, base_params,
                   adjusted_params, audio_path, direct>>
    /\ UNCHANGED <<mode, clock, served>>

\* /process: except Exception as e: return jsonify({'error': str(e)}), 500
RouteExcept(t) ==
    /\ mode = "web"
    /\ pc[t] = "raised"
    /\ response' = [response EXCEPT ![t] = jsonify_error("Failed to generate audio", 500)]
    /\ pc' = [pc EXCEPT ![t] = "responded"]
    /\ UNCHANGED <<classifier, tts_lock, text, result, emotion_result, base_params,
                   adjusted_params, audio_path, direct>>
    /\ UNCHANGED <<mode, clock, app_config, served>>

\* GET /audio/<audio_id> by the client of t, with the audio_id of its response:
\* the stored path is served (temp files are never deleted), 0 stands for the 404
GetAudio(t) ==
    /\ mode = "web"
    /\ pc[t] = "responded"
    /\ response[t].kind = "result"
    /\ served' = [served EXCEPT ![t] = dict_get(app_config, response[t].audio_id, 0)]
    /\ pc' = [pc EXCEPT ![t] = "fetched"]
    /\ UNCHANGED <<classifier, tts_lock, text, result, emotion_result, base_params,
                   adjusted_params, audio_path, direct>>
    /\ UNCHANGED <<mode, clock, app_config, response>>

\* time passes; only the web route reads the clock
Tick ==
    /\ mode = "web"
    /\ clock < MaxClock
    /\ clock' = clock + 1
    /\ UNCHANGED <<classifier, tts_lock, pc, text, result, emotion_result, base_params,
                   adjusted_params, audio_path, direct>>
    /\ UNCHANGED <<mode, app_config, response, served>>

\* the CLI loop reads a line: quit/exit/q leaves the loop, an empty line is
\* answered with a prompt, any other text goes to process_text
CliInput(lines) ==
    /\ mode = "cli"
    /\ pc[1] \in {"idle", "printed"}
    /\ \E line \in lines :
         LET txt == strip(line)
         IN  IF lower(txt) \in QuitWords
             THEN /\ Frame(1, <<>>, "exited")
                  /\ response' = [response EXCEPT ![1] = cli_print("goodbye", "Goodbye!")]
             ELSE IF txt = <<>>
             THEN /\ Frame(1, <<>>, "printed")
                  /\ response' =
                       [response EXCEPT ![1] = cli_print("error", "Please enter some text!")]
             ELSE /\ Frame(1, txt, "detect")
                  /\ response' = [response EXCEPT ![1] = NoResponse]
    /\ UNCHANGED <<mode, clock, app_config, served>>

\* the CLI loop after process_text returned: the analysis, the voice parameters
\* and the audio path are printed
CliPrint ==
    /\ mode = "cli"
    /\ pc[1] = "returned"
    /\ response' =
         [response EXCEPT
            ![1] = cli_print_result(emotion_result[1], adjusted_params[1], audio_path[1])]
    /\ pc' = [pc EXCEPT ![1] = "printed"]
    /\ UNCHANGED <<classifier, tts_lock, text, result, emotion_result, base_params,
                   adjusted_params, audio_path, direct>>
    /\ UNCHANGED <<mode, clock, app_config, served>>

\* the CLI loop: except Exception as e: print(f"Error: {e}")
CliExcept ==
    /\ mode = "cli"
    /\ pc[1] = "raised"
    /\ response' =
         [response EXCEPT ![1] = cli_print("error", "Error: Failed to generate audio")]
    /\ pc' = [pc EXCEPT ![1] = "printed"]
    /\ UNCHANGED <<classifier, tts_lock, text, result, emotion_result, base_params,
                   adjusted_params, audio_path, direct>>
    /\ UNCHANGED <<mode, clock, app_config, served>>

\* the program started as the web application or with --cli
ShellInit == EngineInit /\ mode \in {"web", "cli"}

\* the web application serves each request in a thread of its own; the CLI loop
\* runs in thread 1
ShellNext ==
    \/ \E t \in Threads :
         \/ RouteProcess(t, RequestBodies)
         \/ RouteAudioId(t)
         \/ RouteStore(t)
         \/ RouteExcept(t)
         \/ GetAudio(t)
         \/ Progress(t, ThreadOutputs)
    \/ Tick
    \/ CliInput(CliLines)
    \/ CliPrint
    \/ CliExcept

ShellSpec == ShellInit /\ [][ShellNext]_vars

-----------------------------------------------------------------------------
(* Vocabulary of the properties *)

Range(seq) == { seq[i] : i \in 1..Len(seq) }

\* process_text has finished step 1 / step 2 / step 3 in thread t
AfterDetect(t) ==
    pc[t] \in {"lookup", "scale", "lock", "synth", "leave_return", "leave_raise",
               "returned", "raised"}

AfterLookup(t) == AfterDetect(t) /\ pc[t] # "lookup"

AfterScaling(t) == AfterLookup(t) /\ pc[t] # "scale"

\* the classifier was unavailable, raised, or returned malformed output
ClassifierFailed(t) ==
    \/ ~classifier
    \/ result[t] = ClassifierRaises
    \/ result[t] \in MalformedOutputs

\* the classifier returned a label and a score
ClassifierSucceeded(t) == classifier /\ result[t] \in WellFormedOutputs

\* an exception left process_text before _generate_audio was entered
RaisedBeforeAudio(t) == pc[t] = "raised" /\ adjusted_params[t] = NoParams

InBounds(p) ==
    /\ 100 <= p.rate /\ p.rate <= 300
    /\ -50000 <= p.pitch /\ p.pitch <= 50000
    /\ 100 <= p.volume /\ p.volume <= 1000
    /\ p.emphasis \in EmphasisLevels

DirectScaling == direct.fn = "_apply_intensity_scaling"

DirectLookup == direct.fn = "base_lookup"

-----------------------------------------------------------------------------
(* C1: every result of _apply_intensity_scaling(b, i), for any base b and   *)
(* any intensity i in [0,1], has 100 <= rate <= 300, -50 <= pitch <= 50,    *)
(* 0.1 <= volume <= 1.0 and an emphasis in {none, moderate, strong}; so has *)
(* every VoiceParameters that process_text computes.                        *)
C1_ScaledWithinBounds ==
    /\ DirectScaling => InBounds(direct.params)
    /\ \A t \in Threads : AfterScaling(t) => InBounds(adjusted_params[t])

\* a base outside the bounds was scaled at full intensity and came out clamped
C1_Witness ==
    /\ DirectScaling
    /\ direct.base.rate = 400 /\ direct.base.pitch = -60000
    /\ direct.intensity = 100
    /\ direct.params.rate = 300 /\ direct.params.pitch = -50000

-----------------------------------------------------------------------------
(* C2: when the classifier is unavailable, raises, or returns malformed      *)
(* output, detect_emotion lets no exception out and returns exactly the     *)
(* result of the lexical fallback, whose intensity is the literal 0.6 or    *)
(* 0.3.                                                                     *)
C2_FailureFallsBack ==
    \A t \in Threads :
        /\ ~RaisedBeforeAudio(t)
        /\ AfterDetect(t) /\ ClassifierFailed(t) =>
             /\ emotion_result[t] = _basic_sentiment_analysis(text[t])
             /\ emotion_result[t].intensity \in {60, 30}

\* the classifier returned a score that is no number, the text holds a high
\* marker, and the call went on with the fallback's literal intensity
C2_Witness ==
    \E t \in Threads :
        /\ pc[t] = "returned"
        /\ classifier
        /\ result[t] =
             ClassifierReturns(<< ClassifierItem("str", <<"j","o","y">>, "nonnum", 0) >>)
        /\ text[t] = <<"a","w","f","u","l">>
        /\ emotion_result[t] = EmotionResult("angry", 70, 60)

-----------------------------------------------------------------------------
(* C3 *)

\* the number of positions of s at which word w occurs
Occurrences(w, s) ==
    Cardinality({ i \in 0..(Len(s) - Len(w)) : SubSeq(s, i + 1, i + Len(w)) = w })

RECURSIVE TotalOccurrences(_, _)
TotalOccurrences(words, s) ==
    IF words = <<>> THEN 0
    ELSE Occurrences(Head(words), s) + TotalOccurrences(Tail(words), s)

\* the number of the listed words that occur in s at all
WordsPresent(words, s) == Cardinality({ w \in Range(words) : Contains(w, s) })

SentimentOf(pos, neg) ==
    IF pos > neg THEN EmotionResult("happy", 70, 60)
    ELSE IF neg > pos THEN EmotionResult("angry", 70, 60)
    ELSE EmotionResult("neutral", 80, 30)

\* text[t] with upper-case letters folded, written without lower()
Folded(t) ==
    [i \in 1..Len(text[t]) |->
        CASE text[t][i] = "S" -> "s"
          [] text[t][i] = "A" -> "a"
          [] text[t][i] = "D" -> "d"
          [] OTHER -> text[t][i]]

(* C3 as stated: the fallback compares the numbers of occurrences of the    *)
(* positive and of the negative words in the lower-cased text, so that a    *)
(* word occurring several times counts several times.                       *)
C3_Original_CountsOccurrences ==
    \A t \in Threads :
        AfterDetect(t) /\ ClassifierFailed(t) =>
            emotion_result[t] =
                SentimentOf(TotalOccurrences(positive_words, Folded(t)),
                            TotalOccurrences(negative_words, Folded(t)))

(* C3 amended: the fallback compares how many of the positive words and how *)
(* many of the negative words occur at least once as a substring of the     *)
(* lower-cased text; a listed word counts once however often it occurs.     *)
C3_CountsWordsPresent ==
    \A t \in Threads :
        AfterDetect(t) /\ ClassifierFailed(t) =>
            emotion_result[t] =
                SentimentOf(WordsPresent(positive_words, Folded(t)),
                            WordsPresent(negative_words, Folded(t)))

\* one 'good' and two upper-case 'SAD': one word of each list, hence neutral
C3_Witness ==
    \E t \in Threads :
        /\ pc[t] = "returned"
        /\ ClassifierFailed(t)
        /\ text[t] = <<"S","A","D","g","o","o","d","S","A","D">>
        /\ emotion_result[t] = EmotionResult("neutral", 80, 30)

-----------------------------------------------------------------------------
(* C4 *)

\* the categories of the labels the classifier returns in this model
ExpectedEmotion(label) ==
    CASE label = <<"j","o","y">> -> "happy"
      [] label = <<"s","a","d","n","e","s","s">> -> "sad"
      [] label = <<"a","n","g","e","r">> -> "angry"
      [] label \in { <<"f","e","a","r">>, <<"F","e","a","r">> } -> "worried"
      [] label = <<"s","u","r","p","r","i","s","e">> -> "surprised"
      [] label = <<"d","i","s","g","u","s","t">> -> "disgusted"
      [] OTHER -> "neutral"

(* C4: when the classifier returns a label and a score, detect_emotion      *)
(* returns the normalization-table image of the lower-cased label (neutral  *)
(* for an unrecognized one), the score unchanged as confidence, and         *)
(* _calculate_intensity(text, score) as intensity.                          *)
C4_SuccessPathResult ==
    \A t \in Threads :
        AfterDetect(t) /\ ClassifierSucceeded(t) =>
            LET item == result[t].items[1]
            IN  /\ emotion_result[t].emotion = ExpectedEmotion(item.label)
                /\ emotion_result[t].confidence = item.score
                /\ emotion_result[t].intensity = _calculate_intensity(text[t], item.score)

\* a capitalised label was normalised, and the intensity differs from the score
C4_Witness ==
    \E t \in Threads :
        /\ pc[t] = "returned"
        /\ ClassifierSucceeded(t)
        /\ result[t].items[1].label = <<"F","e","a","r">>
        /\ emotion_result[t].emotion = "worried"
        /\ emotion_result[t].confidence = 50
        /\ emotion_result[t].intensity = 90

-----------------------------------------------------------------------------
(* C5 *)

EmotionEnum ==
    {"happy", "sad", "angry", "worried", "surprised", "disgusted", "neutral", "excited"}

\* what the lookup of emotion string e has to give
IsBaseFor(p, e) ==
    IF e \in EmotionEnum
    THEN e \in DOMAIN voice_mappings /\ p = voice_mappings[e]
    ELSE p = VoiceParameters(200, 0, 850, "none")

(* C5: the base-parameter lookup never raises; each of the eight enum       *)
(* emotions has its table entry, and any other string gets the neutral      *)
(* entry (rate 200, pitch 0, volume 0.85, emphasis none).                   *)
C5_LookupTotal ==
    /\ DirectLookup => IsBaseFor(direct.params, direct.emotion)
    /\ \A t \in Threads :
         /\ AfterLookup(t) => IsBaseFor(base_params[t], emotion_result[t].emotion)
         /\ ~RaisedBeforeAudio(t)

\* a string that is no key of the table was looked up
C5_Witness ==
    /\ DirectLookup
    /\ direct.emotion = "bored"
    /\ direct.params = VoiceParameters(200, 0, 850, "none")

-----------------------------------------------------------------------------
(* C6 *)

Markers == Range(intensity_markers_high) \cup Range(intensity_markers_medium)

\* the texts obtained from txt by adding one marker in front or at the end
WithMarkerAdded(txt) == { txt \o m : m \in Markers } \cup { m \o txt : m \in Markers }

(* The value detect_emotion has just computed is compared with the value of *)
(* _calculate_intensity on the same text with one marker added.             *)
(* C6 as stated: for every text and base confidence, adding a high- or      *)
(* medium-intensity marker to the text never decreases the value of         *)
(* _calculate_intensity.                                                    *)
C6_Original_Monotone ==
    \A t \in Threads :
        pc[t] = "lookup" /\ ClassifierSucceeded(t) =>
            \A longer \in WithMarkerAdded(text[t]) :
                _calculate_intensity(longer, emotion_result[t].confidence)
                    >= emotion_result[t].intensity

(* C6 amended: adding a high- or medium-intensity marker in front or at the *)
(* end of the text never decreases the value of _calculate_intensity,       *)
(* provided the longer text keeps the capital-letter bonus when the text    *)
(* had it (its upper-case ratio is still above 0.3).                        *)
C6_MonotoneUnlessCapsLost ==
    \A t \in Threads :
        pc[t] = "lookup" /\ ClassifierSucceeded(t) =>
            \A longer \in WithMarkerAdded(text[t]) :
                (caps_shouting(text[t]) => caps_shouting(longer)) =>
                    _calculate_intensity(longer, emotion_result[t].confidence)
                        >= emotion_result[t].intensity

\* a text with a high marker got its intensity below the ceiling; adding the
\* medium marker 'good' raises it
C6_Witness ==
    \E t \in Threads :
        /\ pc[t] = "returned"
        /\ ClassifierSucceeded(t)
        /\ text[t] = <<"a","w","f","u","l">>
        /\ emotion_result[t].intensity = 35
        /\ _calculate_intensity(text[t] \o <<"g","o","o","d">>,
                                emotion_result[t].confidence) = 45

-----------------------------------------------------------------------------
(* C7 *)

\* the number of upper-case letters of s, counted without isupper()
CapitalCount(s) == Cardinality({ i \in 1..Len(s) : s[i] \in {"S", "A", "D"} })

\* max(0.1, min(1.0, c + 0.3*H + 0.1*M + 0.2*K)) for the text of thread t
ClosedFormIntensity(t, c) ==
    LET H == WordsPresent(intensity_markers_high, Folded(t))
        M == WordsPresent(intensity_markers_medium, Folded(t))
        K == IF 10 * CapitalCount(text[t]) > 3 * Max(1, Len(text[t])) THEN 1 ELSE 0
    IN  Max(10, Min(100, c + 30 * H + 10 * M + 20 * K))

(* C7: for every text and base confidence c, _calculate_intensity returns   *)
(* max(0.1, min(1.0, c + 0.3*H + 0.1*M + 0.2*K)) with H and M the numbers   *)
(* of distinct high and medium markers that are substrings of the           *)
(* lower-cased text and K = 1 iff upper-case letters / max(1, length) >     *)
(* 0.3; the result is in [0.1, 1.0], and the empty text does not fail.      *)
C7_IntensityClosedForm ==
    \A t \in Threads :
        AfterDetect(t) /\ ClassifierSucceeded(t) =>
            /\ emotion_result[t].intensity =
                 ClosedFormIntensity(t, result[t].items[1].score)
            /\ 10 <= emotion_result[t].intensity
            /\ emotion_result[t].intensity <= 100

\* one high marker, two medium markers and the capital-letter bonus all
\* contribute, below the ceiling
C7_Witness ==
    \E t \in Threads :
        /\ pc[t] = "returned"
        /\ ClassifierSucceeded(t)
        /\ text[t] = <<"S","A","D","a","w","f","u","l","!">>
        /\ result[t].items[1].score = 5
        /\ emotion_result[t].intensity = 75

-----------------------------------------------------------------------------
(* C8 *)

\* 200 times the exact value of b.rate + (b.rate - 200) * i * 0.5, clamped
\* to [100, 300]
ClampedExactRate200(b, i) ==
    Max(200 * 100, Min(200 * 300, 200 * b.rate + (b.rate - 200) * i))

(* C8 as stated: the rate of _apply_intensity_scaling(b, i) is the exact    *)
(* value clamped to [100,300] and rounded to the nearest integer.           *)
C8_Original_RoundsToNearest ==
    DirectScaling =>
        LET exact200 == ClampedExactRate200(direct.base, direct.intensity)
        IN  /\ 200 * direct.params.rate - exact200 <= 100
            /\ exact200 - 200 * direct.params.rate <= 100

(* C8 amended: the rate of _apply_intensity_scaling(b, i) is the exact      *)
(* value b.rate + (b.rate - 200) * i * 0.5 clamped to [100,300] with its    *)
(* fraction discarded (228.7 gives 228, 142.6 gives 142).                   *)
C8_RateTruncated ==
    /\ DirectScaling =>
         LET exact200 == ClampedExactRate200(direct.base, direct.intensity)
         IN  /\ 200 * direct.params.rate <= exact200
             /\ exact200 < 200 * (direct.params.rate + 1)
    /\ \A t \in Threads :
         AfterScaling(t) =>
             LET exact200 == ClampedExactRate200(base_params[t],
                                                 emotion_result[t].intensity)
             IN  /\ 200 * adjusted_params[t].rate <= exact200
                 /\ exact200 < 200 * (adjusted_params[t].rate + 1)

\* the sad base at intensity 0.87: the exact rate is 142.6 and the result 142
C8_Witness ==
    /\ DirectScaling
    /\ direct.base = VoiceParameters(160, -10000, 700, "none")
    /\ direct.intensity = 87
    /\ direct.params.rate = 142

-----------------------------------------------------------------------------
(* C9: _apply_intensity_scaling(b, i) gives emphasis none whenever          *)
(* i <= 0.6, whatever b.emphasis is, and b.emphasis whenever i > 0.6; so    *)
(* every process_text result of the fallback path (intensity 0.6 or 0.3)    *)
(* has emphasis none, also for happy and angry, whose base is strong.       *)
C9_EmphasisGate ==
    /\ DirectScaling =>
         direct.params.emphasis =
             (IF direct.intensity <= 60 THEN "none" ELSE direct.base.emphasis)
    /\ \A t \in Threads :
         AfterScaling(t) /\ ClassifierFailed(t) =>
             adjusted_params[t].emphasis = "none"

\* a fallback result of emotion happy: base emphasis strong, result none
C9_Witness ==
    \E t \in Threads :
        /\ pc[t] = "returned"
        /\ ClassifierFailed(t)
        /\ emotion_result[t] = EmotionResult("happy", 70, 60)
        /\ base_params[t].emphasis = "strong"
        /\ adjusted_params[t].emphasis = "none"

-----------------------------------------------------------------------------
(* C10 *)

\* thread t is inside the with block of _generate_audio
InSynthesis(t) == pc[t] \in {"synth", "leave_return", "leave_raise"}

\* the lock is held by exactly the thread that is inside the with block
LockFollowsBlock == \A t \in Threads : (tts_lock = t) <=> InSynthesis(t)

MutualExclusion ==
    \A t, u \in Threads : InSynthesis(t) /\ InSynthesis(u) => t = u

(* C10: in any interleaving of concurrent process_text calls at most one    *)
(* synthesis is in flight; the lock is released on every way out of         *)
(* _generate_audio, by exception too; and every caller that waits for the   *)
(* lock acquires it eventually.                                             *)
C10_SynthesisSerialized ==
    /\ [](MutualExclusion /\ LockFollowsBlock)
    /\ \A t \in Threads : (pc[t] = "lock") ~> (pc[t] = "synth")

\* a synthesis failed, its thread has left, and another thread is inside
C10_Witness ==
    \E t, u \in Threads :
        /\ pc[t] = "raised"
        /\ pc[u] = "synth"
        /\ tts_lock = u

-----------------------------------------------------------------------------
(* C11 *)

\* the shell of thread t has rendered the outcome of its request or input line
Rendered(t) == response[t].kind # "none"

\* process_text of thread t computed the voice parameters and its synthesis
\* step ended without an audio file
SynthesisFailed(t) ==
    /\ pc[t] \in {"leave_raise", "raised", "responded", "printed"}
    /\ adjusted_params[t] # NoParams
    /\ audio_path[t] = 0

\* process_text of thread t returned its triple to the shell
SynthesisSucceeded(t) == audio_path[t] # 0 /\ pc[t] \notin {"synth", "leave_return"}

\* a rendering with all seven fields of the analysis of thread t
CompleteResult(t) ==
    /\ response[t].kind = "result"
    /\ response[t].error = ""
    /\ response[t].emotion = emotion_result[t]
    /\ response[t].emotion.emotion # "unset"
    /\ response[t].voice_params = adjusted_params[t]
    /\ InBounds(response[t].voice_params)

\* a rendering with a message and no field of an analysis
ErrorOnly(t) ==
    /\ response[t].kind = "error"
    /\ response[t].error # ""
    /\ response[t].emotion = NoEmotion
    /\ response[t].voice_params = NoParams
    /\ response[t].audio_id = 0
    /\ response[t].audio_path = 0

(* C11: a failure of the synthesis step always reaches the caller of         *)
(* process_text as an exception, never as a return; a classifier failure    *)
(* alone never produces an error; and what the /process route or the CLI    *)
(* loop renders is either the complete result (emotion, confidence,         *)
(* intensity, rate, pitch, volume, emphasis) or an error message only,      *)
(* never a part of a result.                                                *)
C11_ResultOrError ==
    \A t \in Threads :
        /\ pc[t] = "returned" => audio_path[t] # 0
        /\ pc[t] = "raised" => SynthesisFailed(t)
        /\ Rendered(t) /\ SynthesisFailed(t) => ErrorOnly(t)
        /\ Rendered(t) /\ SynthesisSucceeded(t) => CompleteResult(t)
        /\ Rendered(t) /\ response[t].kind # "goodbye" => CompleteResult(t) \/ ErrorOnly(t)
        /\ response[t].kind = "error" /\ text[t] # <<>> => SynthesisFailed(t)

\* two web requests met a failed classifier; the synthesis of one failed and it
\* was answered 500 with the error alone, the other got the complete result
C11_Witness ==
    \E t, u \in Threads :
        /\ mode = "web"
        /\ ClassifierFailed(t) /\ result[t] = ClassifierRaises
        /\ pc[t] = "responded" /\ SynthesisFailed(t)
        /\ response[t] = jsonify_error("Failed to generate audio", 500)
        /\ pc[u] = "responded" /\ result[u] = ClassifierRaises
        /\ response[u].kind = "result"
        /\ response[u].voice_params = adjusted_params[u]
        /\ response[u].emotion = _basic_sentiment_analysis(text[u])

-----------------------------------------------------------------------------
(* C12 *)

\* /process answered the request of thread t with a result and an audio_id
Successful(t) ==
    mode = "web" /\ pc[t] \in {"responded", "fetched"} /\ response[t].kind = "result"

(* C12: under any interleaving of /process requests, the audio_ids of        *)
(* distinct successful requests differ, the path stored under the audio_id  *)
(* of a successful request stays the path of the audio generated for that   *)
(* request, and GET /audio/<audio_id> with the audio_id of a response       *)
(* serves the audio file generated for that same request.                   *)
C12_AudioIdResolves ==
    \A t \in Threads :
        /\ \A u \in Threads \ {t} :
             Successful(t) /\ Successful(u) => response[t].audio_id # response[u].audio_id
        /\ Successful(t) => dict_get(app_config, response[t].audio_id, 0) = audio_path[t]
        /\ pc[t] = "fetched" => served[t] = audio_path[t]

====
